---- MODULE Spec2Model ----
(***************************************************************************)
(* Playback orchestration core of MUSIC_PRO_BOT:                           *)
(*   core/queue_manager.py  QueueManager (per-chat queue and history)      *)
(*   core/bot_engine.py     MusicBotEngine (play/pause/resume/stop/skip)   *)
(*   core/voice_client.py   VoiceClient (adapter over PyTgCalls)           *)
(*                                                                         *)
(* QueueManager methods are synchronous and are single actions.  The       *)
(* engine's coroutines suspend at their network awaits (stream resolution, *)
(* join_group_call, change_stream, pause_stream, resume_stream,            *)
(* leave_group_call); each call is a task whose pc is the await it is      *)
(* suspended in.  A library command takes effect when it is issued and its *)
(* outcome is delivered when the task is resumed.  Spec runs the calls one *)
(* at a time; SpecConc lets several calls be in flight, as the event loop  *)
(* does.                                                                   *)
(***************************************************************************)
EXTENDS Integers, Sequences, FiniteSets, TLC

\* ---------------------------------------------------------------- bounds
MaxQueueSize == 2      \* QueueManager(max_queue_size=...)
MaxHistory == 2        \* QueueManager(max_history=...)
MaxClock == 3          \* QueueItems created in a run of the queue manager alone
EngineEnqueues == 2    \* QueueItems created in a run of the engine
NumTasks == 2          \* engine calls that can be in flight together
TicksPerSecond == 2    \* clock values in one second of datetime.now()
MaxReturned == 2       \* get_next results per chat in a run with load_state
MaxStoredPlays == 1    \* total_plays of the stats document found in the database

Chats == {1, 2}
\* the (track, user_id) requests made: each user asks for one track
Requests == {<<"trackA", 101>>, <<"trackB", 102>>}
Volumes == {50, 250}
\* the chat the engine is driven in; every engine method reads and writes only
\* the entries of its own chat_id
EngineChats == {1}
Tasks == 1..NumTasks

None == "None"

VARIABLES
    queues,         \* QueueManager.queues: chat_id -> sequence of QueueItem
    history,        \* QueueManager.history: chat_id -> sequence of QueueItem
    now,            \* datetime.now() as read by QueueItem.__init__
    file,           \* the file save_state writes: <<>> while it does not exist
    chat_contexts,  \* MusicBotEngine.chat_contexts: chat_id -> ChatContext
    voice_client,   \* MusicBotEngine.voice_client is not None
    active_chats,   \* VoiceClient.active_chats: chat_id -> dict
    tasks,          \* engine coroutines: position and locals of each call
    commanded,      \* per chat, the stream last started through change_stream
    total_plays,    \* MusicBotEngine.total_plays
    database,       \* the stats document of the database: <<>> while there is none
    enqueued,       \* per chat, the (track, user_id) pairs add_to_queue accepted
    returned,       \* per chat, the (track, user_id) pairs get_next returned
    lastcall        \* the queue call or stream-end callback that ran last

qvars == <<queues, history, now, file>>
evars == <<chat_contexts, voice_client, active_chats, commanded>>
gvars == <<enqueued, returned>>
svars == <<total_plays, database>>
vars == <<queues, history, now, file, chat_contexts, voice_client, active_chats,
          tasks, commanded, total_plays, database, enqueued, returned, lastcall>>

\* ------------------------------------------------------------ dictionaries
EmptyDict == [c \in {} |-> None]

Put(d, k, v) == [x \in DOMAIN d \cup {k} |-> IF x = k THEN v ELSE d[x]]

Del(d, k) == [x \in DOMAIN d \ {k} |-> d[x]]

Get(d, k, default) == IF k \in DOMAIN d THEN d[k] ELSE default

\* ------------------------------------------------------------- QueueItem
QueueItem(track, user_id, added_at) ==
    [track |-> track, user_id |-> user_id, added_at |-> added_at, played |-> FALSE]

\* what the logs keep of an entry: its track and user, and when it was made
Entry(item) == <<item.track, item.user_id, item.added_at>>

Entries(items) == [i \in 1..Len(items) |-> Entry(items[i])]

\* collections.deque(maxlen=n).append: a full deque drops its head
DequeAppend(q, item, maxlen) ==
    IF Len(q) >= maxlen
    THEN SubSeq(Append(q, item), Len(q) + 2 - maxlen, Len(q) + 1)
    ELSE Append(q, item)

\* ---------------------------------------------------------- QueueManager
\* add_to_queue: [ret, queues]; ret is TRUE or "QueueError"
AddToQueueNoCheck(qs, chat_id, item) ==
    LET q == Get(qs, chat_id, <<>>)
    IN  [ret |-> "True", queues |-> Put(qs, chat_id, DequeAppend(q, item, MaxQueueSize))]

AddToQueue(qs, chat_id, item) ==
    LET created == Put(qs, chat_id, Get(qs, chat_id, <<>>))
    IN  IF Len(created[chat_id]) >= MaxQueueSize
        THEN [ret |-> "QueueError", queues |-> created]
        ELSE [ret |-> "True",
              queues |-> Put(created, chat_id,
                             DequeAppend(created[chat_id], item, MaxQueueSize))]

\* lst[-n:] for n >= 0: the last n elements, and the whole list when n is 0
\* (-0 is 0) or when the list has fewer than n
SliceLast(lst, n) ==
    IF n = 0 \/ n >= Len(lst) THEN lst
    ELSE SubSeq(lst, Len(lst) - n + 1, Len(lst))

\* a slice bound as Python reads it: counted from the end when negative, and
\* brought into 0..n
SliceBound(i, n) ==
    IF i < 0 THEN (IF i + n < 0 THEN 0 ELSE i + n)
    ELSE (IF i > n THEN n ELSE i)

\* lst[start:end]
Slice(lst, start, end) ==
    LET a == SliceBound(start, Len(lst))
        b == SliceBound(end, Len(lst))
    IN  IF a >= b THEN <<>> ELSE SubSeq(lst, a + 1, b)

\* reversed(lst)
Reversed(lst) == [i \in 1..Len(lst) |-> lst[Len(lst) + 1 - i]]

\* add_to_history trimming from the newest end: history[:max_history]
AddToHistoryKeepOldest(hs, chat_id, item) ==
    LET h == Append(Get(hs, chat_id, <<>>), item)
    IN  Put(hs, chat_id, IF Len(h) > MaxHistory THEN SubSeq(h, 1, MaxHistory) ELSE h)

\* add_to_history(chat_id, item)
AddToHistory(hs, chat_id, item) ==
    LET h == Append(Get(hs, chat_id, <<>>), item)
    IN  Put(hs, chat_id,
            IF Len(h) > MaxHistory THEN SliceLast(h, MaxHistory) ELSE h)

\* get_next: [item, queues, history]; item is <<>> for None, <<QueueItem>> otherwise
GetNextFromTail(qs, hs, chat_id) ==
    IF chat_id \notin DOMAIN qs \/ qs[chat_id] = <<>>
    THEN [item |-> <<>>, queues |-> qs, history |-> hs]
    ELSE LET q == qs[chat_id]
             item == [q[Len(q)] EXCEPT !.played = TRUE]
         IN  [item |-> <<item>>,
              queues |-> Put(qs, chat_id, SubSeq(q, 1, Len(q) - 1)),
              history |-> AddToHistory(hs, chat_id, item)]

\* get_next creating the chat's history list before it looks at the queue
GetNextRecordsMiss(qs, hs, chat_id) ==
    IF chat_id \notin DOMAIN qs \/ qs[chat_id] = <<>>
    THEN [item |-> <<>>, queues |-> qs, history |-> Put(hs, chat_id, Get(hs, chat_id, <<>>))]
    ELSE LET item == [Head(qs[chat_id]) EXCEPT !.played = TRUE]
         IN  [item |-> <<item>>,
              queues |-> Put(qs, chat_id, Tail(qs[chat_id])),
              history |-> AddToHistory(hs, chat_id, item)]

\* get_next reading the head without popleft()
GetNextKeepsHead(qs, hs, chat_id) ==
    IF chat_id \notin DOMAIN qs \/ qs[chat_id] = <<>>
    THEN [item |-> <<>>, queues |-> qs, history |-> hs]
    ELSE LET item == [Head(qs[chat_id]) EXCEPT !.played = TRUE]
         IN  [item |-> <<item>>,
              queues |-> qs,
              history |-> AddToHistory(hs, chat_id, item)]

GetNext(qs, hs, chat_id) ==
    IF chat_id \notin DOMAIN qs \/ qs[chat_id] = <<>>
    THEN [item |-> <<>>, queues |-> qs, history |-> hs]
    ELSE LET item == [Head(qs[chat_id]) EXCEPT !.played = TRUE]
         IN  [item |-> <<item>>,
              queues |-> Put(qs, chat_id, Tail(qs[chat_id])),
              history |-> AddToHistory(hs, chat_id, item)]

\* deque(items, maxlen=n): of more than n items the last n are kept
Deque(items, maxlen) ==
    IF Len(items) > maxlen
    THEN SubSeq(items, Len(items) - maxlen + 1, Len(items))
    ELSE items

\* list.pop(i) and list.insert(i, x) for 0 <= i <= len: the list afterwards
ListPop(items, i) ==
    SubSeq(items, 1, i) \o SubSeq(items, i + 2, Len(items))

ListInsert(items, i, x) ==
    SubSeq(items, 1, i) \o <<x>> \o SubSeq(items, i + 1, Len(items))

\* peek_next: <<>> for None, <<QueueItem>> otherwise
PeekNext(qs, chat_id) ==
    IF chat_id \notin DOMAIN qs \/ qs[chat_id] = <<>> THEN <<>>
    ELSE <<qs[chat_id][1]>>

\* remove_track without the `position < 0` test: items.pop(-1) takes the last
RemoveTrackNegativeIndex(qs, chat_id, position) ==
    IF chat_id \notin DOMAIN qs THEN [item |-> <<>>, queues |-> qs]
    ELSE IF position >= Len(qs[chat_id]) \/ position + Len(qs[chat_id]) < 0
    THEN [item |-> <<>>, queues |-> qs]
    ELSE LET i == IF position < 0 THEN position + Len(qs[chat_id]) ELSE position
         IN  [item |-> <<qs[chat_id][i + 1]>>,
              queues |-> [qs EXCEPT ![chat_id] =
                             Deque(ListPop(qs[chat_id], i), MaxQueueSize)]]

\* remove_track: [item, queues]
RemoveTrack(qs, chat_id, position) ==
    IF chat_id \notin DOMAIN qs THEN [item |-> <<>>, queues |-> qs]
    ELSE IF position < 0 \/ position >= Len(qs[chat_id])
    THEN [item |-> <<>>, queues |-> qs]
    ELSE [item |-> <<qs[chat_id][position + 1]>>,
          queues |-> [qs EXCEPT ![chat_id] =
                         Deque(ListPop(qs[chat_id], position), MaxQueueSize)]]

\* move_track inserting before it pops: items.insert(to_pos, item) and then
\* items.pop(from_pos)
MoveTrackInsertFirst(qs, chat_id, from_pos, to_pos) ==
    IF chat_id \notin DOMAIN qs THEN [ret |-> "False", queues |-> qs]
    ELSE IF \/ from_pos < 0 \/ from_pos >= Len(qs[chat_id])
            \/ to_pos < 0 \/ to_pos >= Len(qs[chat_id])
    THEN [ret |-> "False", queues |-> qs]
    ELSE LET item == qs[chat_id][from_pos + 1]
             items == ListPop(ListInsert(qs[chat_id], to_pos, item), from_pos)
         IN  [ret |-> "True",
              queues |-> [qs EXCEPT ![chat_id] = Deque(items, MaxQueueSize)]]

\* move_track: [ret, queues]
MoveTrack(qs, chat_id, from_pos, to_pos) ==
    IF chat_id \notin DOMAIN qs THEN [ret |-> "False", queues |-> qs]
    ELSE IF \/ from_pos < 0 \/ from_pos >= Len(qs[chat_id])
            \/ to_pos < 0 \/ to_pos >= Len(qs[chat_id])
    THEN [ret |-> "False", queues |-> qs]
    ELSE LET item == qs[chat_id][from_pos + 1]
             items == ListInsert(ListPop(qs[chat_id], from_pos), to_pos, item)
         IN  [ret |-> "True",
              queues |-> [qs EXCEPT ![chat_id] = Deque(items, MaxQueueSize)]]

\* the orders random.shuffle can leave a list of n items in
Shuffles(n) == {p \in [1..n -> 1..n] : \A i, j \in 1..n : p[i] = p[j] => i = j}

\* shuffle_queue refusing only the empty queue: `len(...) < 1`
ShuffleQueueOfOne(qs, chat_id, order) ==
    IF chat_id \notin DOMAIN qs \/ Len(qs[chat_id]) < 1
    THEN [ret |-> "False", queues |-> qs]
    ELSE [ret |-> "True",
          queues |-> [qs EXCEPT ![chat_id] =
                         Deque([i \in 1..Len(qs[chat_id]) |-> qs[chat_id][order[i]]],
                               MaxQueueSize)]]

\* shuffle_queue, random.shuffle having put the items in the order order:
\* [ret, queues]
ShuffleQueue(qs, chat_id, order) ==
    IF chat_id \notin DOMAIN qs \/ Len(qs[chat_id]) < 2
    THEN [ret |-> "False", queues |-> qs]
    ELSE [ret |-> "True",
          queues |-> [qs EXCEPT ![chat_id] =
                         Deque([i \in 1..Len(qs[chat_id]) |-> qs[chat_id][order[i]]],
                               MaxQueueSize)]]

\* clear_queue: [ret, queues]
ClearQueue(qs, chat_id) ==
    IF chat_id \in DOMAIN qs
    THEN [ret |-> "True", queues |-> [qs EXCEPT ![chat_id] = <<>>]]
    ELSE [ret |-> "False", queues |-> qs]

\* get_history(chat_id, limit): the list of QueueItems whose to_dict is returned
GetHistory(hs, chat_id, limit) ==
    IF chat_id \notin DOMAIN hs THEN <<>>
    ELSE Reversed(SliceLast(hs[chat_id], limit))

\* get_queue counting only the full pages: pages = total // per_page
GetQueueFullPages(qs, chat_id, page, per_page) ==
    IF chat_id \notin DOMAIN qs \/ qs[chat_id] = <<>>
    THEN [items |-> <<>>, total |-> 0, page |-> page, per_page |-> per_page, pages |-> 0]
    ELSE LET items == qs[chat_id]
             total == Len(items)
             pages == total \div per_page
             p1 == IF page < 1 THEN 1 ELSE page
             p2 == IF p1 > pages THEN pages ELSE p1
             start == (p2 - 1) * per_page
         IN  [items |-> Slice(items, start, start + per_page), total |-> total,
              page |-> p2, per_page |-> per_page, pages |-> pages]

\* get_queue(chat_id, page, per_page), items being the QueueItems whose to_dict
\* is returned
GetQueue(qs, chat_id, page, per_page) ==
    IF chat_id \notin DOMAIN qs \/ qs[chat_id] = <<>>
    THEN [items |-> <<>>, total |-> 0, page |-> page, per_page |-> per_page, pages |-> 0]
    ELSE LET items == qs[chat_id]
             total == Len(items)
             pages == (total + per_page - 1) \div per_page
             p1 == IF page < 1 THEN 1 ELSE page
             p2 == IF p1 > pages THEN pages ELSE p1
             start == (p2 - 1) * per_page
         IN  [items |-> Slice(items, start, start + per_page), total |-> total,
              page |-> p2, per_page |-> per_page, pages |-> pages]

\* ------------------------------------------------------------ persistence
\* datetime: a clock value t is second t \div TicksPerSecond, microsecond
\* t % TicksPerSecond.  isoformat() writes the seconds and, only when it is
\* not 0, the microsecond; fromisoformat() reads either form
IsoFormat(t) ==
    IF t % TicksPerSecond = 0
    THEN <<t \div TicksPerSecond>>
    ELSE <<t \div TicksPerSecond, ".", t % TicksPerSecond>>

FromIsoFormat(str) ==
    IF Len(str) = 1 THEN str[1] * TicksPerSecond
    ELSE str[1] * TicksPerSecond + str[3]

\* StrOf is str(n) and IntOf is int(s), for n >= 0: json.dump writes an int key as its decimal string
DigitChars == <<"0", "1", "2", "3", "4", "5", "6", "7", "8", "9">>

RECURSIVE StrOf(_)
StrOf(n) ==
    IF n < 10 THEN <<DigitChars[n + 1]>>
    ELSE Append(StrOf(n \div 10), DigitChars[(n % 10) + 1])

DigitOf(ch) == (CHOOSE i \in 1..10 : DigitChars[i] = ch) - 1

RECURSIVE IntOf(_)
IntOf(str) ==
    IF Len(str) = 1 THEN DigitOf(str[1])
    ELSE 10 * IntOf(SubSeq(str, 1, Len(str) - 1)) + DigitOf(str[Len(str)])

\* QueueItem.to_dict
ToDict(item) ==
    [track |-> item.track, user_id |-> item.user_id,
     added_at |-> IsoFormat(item.added_at), played |-> item.played]

\* QueueItem.from_dict with `item.played = data.get("played", False)` left out
FromDictUnplayed(data) ==
    QueueItem(data.track, data.user_id, FromIsoFormat(data.added_at))

\* QueueItem.from_dict
FromDict(data) ==
    [QueueItem(data.track, data.user_id, FromIsoFormat(data.added_at))
        EXCEPT !.played = data.played]

\* the JSON object json.dump writes for a dict keyed by chat_id
JsonOfDict(d) ==
    [k \in {StrOf(c) : c \in DOMAIN d} |->
        LET c == CHOOSE x \in DOMAIN d : StrOf(x) = k
        IN  [i \in 1..Len(d[c]) |-> ToDict(d[c][i])]]

\* the dict load_state rebuilds from a JSON object
DictOfJson(obj) ==
    [c \in {IntOf(k) : k \in DOMAIN obj} |->
        LET k == CHOOSE x \in DOMAIN obj : IntOf(x) = c
        IN  [i \in 1..Len(obj[k]) |-> FromDict(obj[k][i])]]

\* -------------------------------------------------------------- call log
\* args: the arguments after chat_id; pre: the chat's queue before; ctx: its
\* context before; item: the entry handled
NoCall ==
    [op |-> "none", chat_id |-> 0, args |-> <<>>, ret |-> None, pre |-> <<>>,
     ctx |-> <<>>, item |-> <<>>]

LogReturned(chat_id, item) ==
    IF item = <<>> THEN returned
    ELSE [returned EXCEPT ![chat_id] = Append(@, Entry(item[1]))]

\* ------------------------------------------------------------------ tasks
IdleTask ==
    [pc |-> "idle", op |-> "none", chat_id |-> 0, track |-> None, user_id |-> 0,
     io |-> None, ret |-> None, cause |-> None, pre |-> <<>>, cmds |-> {},
     item |-> <<>>, volume |-> 0, stats |-> <<>>]

InFlight(t) == tasks[t].pc \notin {"idle", "done"}

\* a result is read in the state its call returned in: the next step drops it
Reaped == [t \in Tasks |-> IF tasks[t].pc = "done" THEN IdleTask ELSE tasks[t]]

\* ------------------------------------------------------------ ChatContext
NewContext ==
    [is_playing |-> FALSE, is_paused |-> FALSE, current_track |-> None, volume |-> 100]

Snapshot(chat_id) ==
    IF chat_id \in DOMAIN chat_contexts THEN <<chat_contexts[chat_id]>> ELSE <<>>

\* pre, the context the call found, is kept for the calls awaited one at a time
Begin(op, chat_id, track, user_id, concurrent) ==
    [IdleTask EXCEPT !.op = op, !.chat_id = chat_id, !.track = track,
                     !.user_id = user_id,
                     !.pre = IF concurrent THEN <<>> ELSE Snapshot(chat_id)]

\* the call returns ret, or raises the exception named by ret; io stays the
\* outcome of the last library command the call waited for
Finish(task, ret, cause) ==
    [task EXCEPT !.pc = "done", !.ret = ret, !.cause = cause]

\* the call is suspended in the library command cmd; io is the outcome it will get
Issue(task, pc, cmd, io) ==
    [task EXCEPT !.pc = pc, !.io = io, !.cmds = @ \cup {cmd}]

\* a call takes the lowest free slot; awaited one at a time, a call starts only
\* when none is in flight
CanStart(t, concurrent) ==
    /\ ~InFlight(t)
    /\ \A u \in Tasks : u < t => InFlight(u)
    /\ concurrent \/ \A u \in Tasks : ~InFlight(u)

\* ------------------------------------------------------------ VoiceClient
GetCallOutcomes == {"call", "none", "raise"}

FreshActive == [joined |-> TRUE, playing |-> FALSE, paused |-> FALSE, volume |-> 100]

\* is_joined: get_call's answer, or the joined flag when get_call raises
IsJoined(ac, chat_id, get_call) ==
    IF chat_id \notin DOMAIN ac THEN FALSE
    ELSE CASE get_call = "call" -> TRUE
           [] get_call = "none" -> FALSE
           [] OTHER -> ac[chat_id].joined

\* `if not await is_joined(c): await join_chat(c)`, join_chat returning early
\* when its own is_joined answers true
NoJoinNeeded(ac, chat_id, gc1, gc2) ==
    IsJoined(ac, chat_id, gc1) \/ IsJoined(ac, chat_id, gc2)

\* play_audio up to its first suspension: [task, commanded]
PlayAudioEnter(task, joined, io) ==
    IF joined
    THEN [task |-> Issue(task, "change_stream", "play", io),
          commanded |-> IF io = "ok"
                        THEN [commanded EXCEPT ![task.chat_id] = task.track]
                        ELSE commanded]
    ELSE [task |-> Issue(task, "join_pa", "join", io), commanded |-> commanded]

\* _on_stream_end
OnStreamEnd(chat_id) ==
    /\ active_chats' = IF chat_id \in DOMAIN active_chats
                       THEN [active_chats EXCEPT ![chat_id].playing = FALSE]
                       ELSE active_chats
    /\ tasks' = Reaped
    /\ lastcall' = [NoCall EXCEPT !.op = "on_stream_end", !.chat_id = chat_id,
                                  !.pre = Get(queues, chat_id, <<>>),
                                  !.ctx = Snapshot(chat_id)]
    /\ UNCHANGED <<svars, qvars, chat_contexts, voice_client, commanded, enqueued, returned>>

\* ------------------------------------------------- QueueManager, as called
QAddToQueue(chat_id, track, user_id) ==
    LET item == QueueItem(track, user_id, now)
        r == AddToQueue(queues, chat_id, item)
    IN  /\ r.ret = "True" => now < MaxClock
        /\ queues' = r.queues
        /\ now' = IF r.ret = "True" THEN now + 1 ELSE now
        /\ enqueued' = IF r.ret = "True"
                       THEN [enqueued EXCEPT ![chat_id] = Append(@, Entry(item))]
                       ELSE enqueued
        /\ lastcall' = [NoCall EXCEPT !.op = "add_to_queue", !.chat_id = chat_id,
                                      !.ret = r.ret, !.item = <<item>>,
                                      !.pre = Get(queues, chat_id, <<>>)]
        /\ tasks' = Reaped
        /\ UNCHANGED <<svars, history, file, evars, returned>>

QGetNext(chat_id) ==
    LET r == GetNext(queues, history, chat_id)
    IN  /\ queues' = r.queues
        /\ history' = r.history
        /\ returned' = LogReturned(chat_id, r.item)
        /\ lastcall' = [NoCall EXCEPT !.op = "get_next", !.chat_id = chat_id,
                                      !.item = r.item,
                                      !.pre = Get(queues, chat_id, <<>>)]
        /\ tasks' = Reaped
        /\ UNCHANGED <<svars, now, file, evars, enqueued>>

\* ---------------------------------------------------------- play_in_chat
\* add_to_history takes (chat_id, item); play_in_chat passes (chat_id, track, user_id)
AddToHistoryParams == 2
PlayHistoryArgs == 3

CallAddToHistory(nargs) == IF nargs = AddToHistoryParams THEN "ok" ELSE "TypeError"

\* lines 188-200: up to `await self._get_audio_stream_url(track)`
StartPlay(t, concurrent, chat_id, track, user_id) ==
    /\ CanStart(t, concurrent)
    /\ chat_contexts' = IF chat_id \in DOMAIN chat_contexts THEN chat_contexts
                        ELSE Put(chat_contexts, chat_id, NewContext)
    /\ tasks' = [Reaped EXCEPT ![t] =
                   IF ~voice_client
                   THEN Finish(Begin("play", chat_id, track, user_id, concurrent),
                               "BotError", "voice_unavailable")
                   ELSE [Begin("play", chat_id, track, user_id, concurrent) EXCEPT !.pc = "resolve"]]
    /\ lastcall' = NoCall
    /\ UNCHANGED <<svars, qvars, voice_client, active_chats, commanded, enqueued, returned>>

\* lines 200-209: the URL arrives; join if needed; enter play_audio
PlayResolved(t) ==
    /\ tasks[t].pc = "resolve"
    /\ \E url \in {"url", None}, gc1, gc2 \in GetCallOutcomes, io \in {"ok", "fail"} :
         LET task == tasks[t]
             c == task.chat_id
         IN  IF url = None
             THEN /\ tasks' = [Reaped EXCEPT ![t] = Finish(task, "BotError", "no_stream")]
                  /\ commanded' = commanded
             ELSE IF NoJoinNeeded(active_chats, c, gc1, gc2)
             THEN \E gc3, gc4 \in GetCallOutcomes :
                    LET r == PlayAudioEnter(task, NoJoinNeeded(active_chats, c, gc3, gc4), io)
                    IN  /\ tasks' = [Reaped EXCEPT ![t] = r.task]
                        /\ commanded' = r.commanded
             ELSE /\ tasks' = [Reaped EXCEPT ![t] = Issue(task, "join", "join", io)]
                  /\ commanded' = commanded
    /\ lastcall' = NoCall
    /\ UNCHANGED <<svars, qvars, chat_contexts, voice_client, active_chats, gvars>>

\* join_chat called by play_in_chat (line 206) returns or raises
PlayJoinReturn(t) ==
    /\ tasks[t].pc = "join"
    /\ LET task == tasks[t]
           c == task.chat_id
           ac == Put(active_chats, c, FreshActive)
       IN  IF task.io = "fail"
           THEN /\ tasks' = [Reaped EXCEPT ![t] = Finish(task, "BotError", "join_failed")]
                /\ UNCHANGED <<active_chats, commanded>>
           ELSE \E gc3, gc4 \in GetCallOutcomes, io \in {"ok", "fail"} :
                  LET r == PlayAudioEnter(task, NoJoinNeeded(ac, c, gc3, gc4), io)
                  IN  /\ active_chats' = ac
                      /\ tasks' = [Reaped EXCEPT ![t] = r.task]
                      /\ commanded' = r.commanded
    /\ lastcall' = NoCall
    /\ UNCHANGED <<svars, qvars, chat_contexts, voice_client, gvars>>

\* join_chat called by play_audio (line 98) returns or raises
PlayAudioJoinReturn(t) ==
    /\ tasks[t].pc = "join_pa"
    /\ LET task == tasks[t]
       IN  IF task.io = "fail"
           THEN /\ tasks' = [Reaped EXCEPT ![t] = Finish(task, "BotError", "play_failed")]
                /\ UNCHANGED <<active_chats, commanded>>
           ELSE \E io \in {"ok", "fail"} :
                  LET r == PlayAudioEnter(task, TRUE, io)
                  IN  /\ active_chats' = Put(active_chats, task.chat_id, FreshActive)
                      /\ tasks' = [Reaped EXCEPT ![t] = r.task]
                      /\ commanded' = r.commanded
    /\ lastcall' = NoCall
    /\ UNCHANGED <<svars, qvars, chat_contexts, voice_client, gvars>>

\* change_stream returns or raises; lines 211-229 and the except clause.  Line
\* 218 raises before the counter is touched; were it to return, lines 221-229
\* would count the play, write the stats document if the database accepts it,
\* and return True.
PlayChangeStreamReturn(t) ==
    /\ tasks[t].pc = "change_stream"
    /\ LET task == tasks[t]
           c == task.chat_id
       IN  IF task.io = "fail"
           THEN /\ tasks' = [Reaped EXCEPT ![t] = Finish(task, "BotError", "play_failed")]
                /\ UNCHANGED <<active_chats, chat_contexts>>
           ELSE /\ active_chats' =
                     IF c \in DOMAIN active_chats
                     THEN [active_chats EXCEPT ![c].playing = TRUE, ![c].paused = FALSE]
                     ELSE active_chats
                /\ chat_contexts' = [chat_contexts EXCEPT ![c].is_playing = TRUE,
                                                          ![c].is_paused = FALSE,
                                                          ![c].current_track = task.track]
                /\ tasks' = [Reaped EXCEPT ![t] =
                               IF CallAddToHistory(PlayHistoryArgs) = "TypeError"
                               THEN Finish(task, "BotError", "add_to_history")
                               ELSE Finish(task, "True", None)]
    /\ total_plays' =
         IF tasks[t].io # "fail" /\ CallAddToHistory(PlayHistoryArgs) = "ok"
         THEN total_plays + 1
         ELSE total_plays
    /\ lastcall' = NoCall
    /\ UNCHANGED <<database, qvars, voice_client, commanded, gvars>>

\* -------------------------------------------- pause_playback / resume_playback
\* lines 237-240: up to `await self.voice_client.pause(chat_id)`
StartPause(t, concurrent, chat_id) ==
    /\ CanStart(t, concurrent)
    /\ \E io \in {"ok", "fail"} :
         tasks' = [Reaped EXCEPT ![t] =
                     IF ~voice_client
                     THEN Finish(Begin("pause", chat_id, None, 0, concurrent), "False", None)
                     ELSE Issue(Begin("pause", chat_id, None, 0, concurrent), "pause_stream", "pause", io)]
    /\ lastcall' = NoCall
    /\ UNCHANGED <<svars, qvars, evars, enqueued, returned>>

\* VoiceClient.pause returns True or False (its result is dropped); lines 242-245
PauseReturn(t) ==
    /\ tasks[t].pc = "pause_stream"
    /\ LET task == tasks[t]
           c == task.chat_id
       IN  /\ active_chats' = IF task.io = "ok" /\ c \in DOMAIN active_chats
                              THEN [active_chats EXCEPT ![c].paused = TRUE]
                              ELSE active_chats
           /\ chat_contexts' = IF c \in DOMAIN chat_contexts
                               THEN [chat_contexts EXCEPT ![c].is_paused = TRUE]
                               ELSE chat_contexts
           /\ tasks' = [Reaped EXCEPT ![t] = Finish(task, "True", None)]
    /\ lastcall' = NoCall
    /\ UNCHANGED <<svars, qvars, voice_client, commanded, gvars>>

\* lines 249-252: up to `await self.voice_client.resume(chat_id)`
StartResume(t, concurrent, chat_id) ==
    /\ CanStart(t, concurrent)
    /\ \E io \in {"ok", "fail"} :
         tasks' = [Reaped EXCEPT ![t] =
                     IF ~voice_client
                     THEN Finish(Begin("resume", chat_id, None, 0, concurrent), "False", None)
                     ELSE Issue(Begin("resume", chat_id, None, 0, concurrent), "resume_stream", "resume", io)]
    /\ lastcall' = NoCall
    /\ UNCHANGED <<svars, qvars, evars, enqueued, returned>>

\* VoiceClient.resume returns True or False (its result is dropped); lines 254-257
ResumeReturn(t) ==
    /\ tasks[t].pc = "resume_stream"
    /\ LET task == tasks[t]
           c == task.chat_id
       IN  /\ active_chats' = IF task.io = "ok" /\ c \in DOMAIN active_chats
                              THEN [active_chats EXCEPT ![c].paused = FALSE]
                              ELSE active_chats
           /\ chat_contexts' = IF c \in DOMAIN chat_contexts
                               THEN [chat_contexts EXCEPT ![c].is_paused = FALSE]
                               ELSE chat_contexts
           /\ tasks' = [Reaped EXCEPT ![t] = Finish(task, "True", None)]
    /\ lastcall' = NoCall
    /\ UNCHANGED <<svars, qvars, voice_client, commanded, gvars>>

\* ------------------------------------------------ stop_playback / skip_track
LeaveOutcomes == {"ok", "not_found", "fail"}

\* stop_playback up to `await self.voice_client.leave_chat(chat_id)`, for the
\* call `task` (stop itself, or skip_track on an empty queue): [task, commanded]
StopEnter(task, io) ==
    IF ~voice_client
    THEN [task |-> Finish(task, IF task.op = "stop" THEN "False" ELSE None, None),
          commanded |-> commanded]
    ELSE [task |-> Issue(task, "leave", "leave", io),
          commanded |-> IF io = "ok" THEN [commanded EXCEPT ![task.chat_id] = None]
                        ELSE commanded]

StartStop(t, concurrent, chat_id) ==
    /\ CanStart(t, concurrent)
    /\ \E io \in LeaveOutcomes :
         LET r == StopEnter(Begin("stop", chat_id, None, 0, concurrent), io)
         IN  /\ tasks' = [Reaped EXCEPT ![t] = r.task]
             /\ commanded' = r.commanded
    /\ lastcall' = NoCall
    /\ UNCHANGED <<svars, qvars, chat_contexts, voice_client, active_chats, enqueued, returned>>

\* LeaveReturn with line 270 (current_track = None) left out
LeaveReturnKeepsTrack(t) ==
    /\ tasks[t].pc = "leave"
    /\ LET task == tasks[t]
           c == task.chat_id
       IN  /\ active_chats' = IF task.io = "ok" THEN Del(active_chats, c) ELSE active_chats
           /\ chat_contexts' = IF c \in DOMAIN chat_contexts
                               THEN [chat_contexts EXCEPT ![c].is_playing = FALSE,
                                                          ![c].is_paused = FALSE]
                               ELSE chat_contexts
           /\ tasks' = [Reaped EXCEPT ![t] =
                          Finish(task, IF task.op = "stop" THEN "True" ELSE None, None)]
    /\ lastcall' = NoCall
    /\ UNCHANGED <<svars, qvars, voice_client, commanded, gvars>>

\* LeaveReturn forgetting the chat: `del self.chat_contexts[chat_id]`
LeaveReturnDropsContext(t) ==
    /\ tasks[t].pc = "leave"
    /\ LET task == tasks[t]
           c == task.chat_id
       IN  /\ active_chats' = IF task.io = "ok" THEN Del(active_chats, c) ELSE active_chats
           /\ chat_contexts' = Del(chat_contexts, c)
           /\ tasks' = [Reaped EXCEPT ![t] =
                          Finish(task, IF task.op = "stop" THEN "True" ELSE None, None)]
    /\ lastcall' = NoCall
    /\ UNCHANGED <<svars, qvars, voice_client, commanded, gvars>>

\* leave_chat returns True or False (its result is dropped); lines 266-272, and
\* line 288 when skip_track made the call
LeaveReturn(t) ==
    /\ tasks[t].pc = "leave"
    /\ LET task == tasks[t]
           c == task.chat_id
       IN  /\ active_chats' = IF task.io = "ok" THEN Del(active_chats, c) ELSE active_chats
           /\ chat_contexts' = IF c \in DOMAIN chat_contexts
                               THEN [chat_contexts EXCEPT ![c].is_playing = FALSE,
                                                          ![c].is_paused = FALSE,
                                                          ![c].current_track = None]
                               ELSE chat_contexts
           /\ tasks' = [Reaped EXCEPT ![t] =
                          Finish(task, IF task.op = "stop" THEN "True" ELSE None, None)]
    /\ lastcall' = NoCall
    /\ UNCHANGED <<svars, qvars, voice_client, commanded, gvars>>

\* QueueItem defines no __getitem__: next_track["track"] raises TypeError
QueueItemSubscriptable == FALSE

\* skip_track, lines 276-287
StartSkip(t, concurrent, chat_id) ==
    /\ CanStart(t, concurrent)
    /\ lastcall' = NoCall
    /\ IF chat_id \notin DOMAIN chat_contexts
       THEN /\ tasks' = [Reaped EXCEPT ![t] = Finish(Begin("skip", chat_id, None, 0, concurrent), None, None)]
            /\ UNCHANGED <<svars, qvars, evars, enqueued, returned>>
       ELSE LET r == GetNext(queues, history, chat_id)
                task == [Begin("skip", chat_id, None, 0, concurrent) EXCEPT !.item = r.item]
            IN  /\ queues' = r.queues
                /\ history' = r.history
                /\ returned' = LogReturned(chat_id, r.item)
                /\ IF r.item # <<>>
                   THEN /\ tasks' = [Reaped EXCEPT ![t] =
                                       IF QueueItemSubscriptable
                                       THEN [task EXCEPT !.pc = "resolve",
                                                         !.track = r.item[1].track,
                                                         !.user_id = r.item[1].user_id]
                                       ELSE Finish(task, "TypeError", "subscript")]
                        /\ commanded' = commanded
                   ELSE \E io \in LeaveOutcomes :
                          LET s == StopEnter(task, io)
                          IN  /\ tasks' = [Reaped EXCEPT ![t] = s.task]
                              /\ commanded' = s.commanded
                /\ UNCHANGED <<svars, now, file, chat_contexts, voice_client, active_chats, enqueued>>

\* ------------------------------------------------------------- set_volume
\* lines 315-326; VoiceClient.set_volume only stores the value and never suspends
SetVolume(t, concurrent, chat_id, volume) ==
    /\ CanStart(t, concurrent)
    /\ lastcall' = NoCall
    /\ LET task == [Begin("set_volume", chat_id, None, 0, concurrent)
                     EXCEPT !.volume = volume]
       IN  IF ~voice_client
           THEN /\ tasks' = [Reaped EXCEPT ![t] = Finish(task, "False", None)]
                /\ UNCHANGED <<active_chats, chat_contexts>>
           ELSE IF volume < 0 \/ volume > 200
           THEN /\ tasks' = [Reaped EXCEPT ![t] = Finish(task, "BotError", "volume")]
                /\ UNCHANGED <<active_chats, chat_contexts>>
           ELSE /\ active_chats' = IF chat_id \in DOMAIN active_chats
                                   THEN [active_chats EXCEPT ![chat_id].volume = volume]
                                   ELSE active_chats
                /\ chat_contexts' = IF chat_id \in DOMAIN chat_contexts
                                    THEN [chat_contexts EXCEPT ![chat_id].volume = volume]
                                    ELSE chat_contexts
                /\ tasks' = [Reaped EXCEPT ![t] =
                               Finish([task EXCEPT !.cmds = {"set_volume"}], "True", None)]
    /\ UNCHANGED <<svars, qvars, voice_client, commanded, enqueued, returned>>

\* ----------------------------------------------------------- specification
Init ==
    /\ queues = EmptyDict
    /\ history = EmptyDict
    /\ now = 0
    /\ file = <<>>
    /\ chat_contexts = EmptyDict
    /\ voice_client \in BOOLEAN
    /\ active_chats = EmptyDict
    /\ tasks = [t \in Tasks |-> IdleTask]
    /\ commanded = [c \in Chats |-> None]
    /\ total_plays = 0
    /\ database = <<>>
    /\ enqueued = [c \in Chats |-> <<>>]
    /\ returned = [c \in Chats |-> <<>>]
    /\ lastcall = NoCall

Step(t) ==
    \/ PlayResolved(t)
    \/ PlayJoinReturn(t)
    \/ PlayAudioJoinReturn(t)
    \/ PlayChangeStreamReturn(t)
    \/ PauseReturn(t)
    \/ ResumeReturn(t)
    \/ LeaveReturn(t)

Call(t, concurrent) ==
    \/ \E c \in EngineChats, r \in Requests : StartPlay(t, concurrent, c, r[1], r[2])
    \/ \E c \in EngineChats : StartPause(t, concurrent, c)
    \/ \E c \in EngineChats : StartResume(t, concurrent, c)
    \/ \E c \in EngineChats : StartStop(t, concurrent, c)
    \/ \E c \in EngineChats : StartSkip(t, concurrent, c)

EngineEnqueue ==
    \E c \in EngineChats, r \in Requests :
        now < EngineEnqueues /\ QAddToQueue(c, r[1], r[2])

\* the engine, its calls awaited one at a time
Next ==
    \/ EngineEnqueue
    \/ \E c \in EngineChats : OnStreamEnd(c)
    \/ \E t \in Tasks : Call(t, FALSE)
    \/ \E t \in Tasks, c \in EngineChats, v \in Volumes : SetVolume(t, FALSE, c, v)
    \/ \E t \in Tasks : Step(t)

Spec == Init /\ [][Next]_vars

\* the engine, its calls interleaved at their awaits
NextConc ==
    \/ \E t \in Tasks : Call(t, TRUE)
    \/ \E t \in Tasks : Step(t)

SpecConc == Init /\ [][NextConc]_vars

\* save_state: the file written; saved_from is the state it was written from
SaveState ==
    /\ file' = <<[queues |-> JsonOfDict(queues), history |-> JsonOfDict(history),
                  saved_from |-> [queues |-> queues, history |-> history]]>>
    /\ lastcall' = [NoCall EXCEPT !.op = "save_state"]
    /\ tasks' = Reaped
    /\ UNCHANGED <<svars, queues, history, now, evars, gvars>>

\* load_state: a missing file is logged and nothing is loaded
LoadState ==
    /\ IF file = <<>>
       THEN UNCHANGED <<queues, history>>
       ELSE /\ queues' = [c \in DOMAIN DictOfJson(file[1].queues) |->
                            Deque(DictOfJson(file[1].queues)[c], MaxQueueSize)]
            /\ history' = DictOfJson(file[1].history)
    /\ lastcall' = [NoCall EXCEPT !.op = "load_state",
                                  !.ret = IF file = <<>> THEN "FileNotFoundError" ELSE None]
    /\ tasks' = Reaped
    /\ UNCHANGED <<svars, now, file, evars, gvars>>

\* what get_history, get_queue are asked for
Limits == 0..(MaxHistory + 1)
Pages == -1..(MaxQueueSize + 1)
PerPages == {1, MaxQueueSize}

QGetHistory(chat_id, limit) ==
    /\ lastcall' = [NoCall EXCEPT !.op = "get_history", !.chat_id = chat_id,
                                  !.args = <<limit>>,
                                  !.ret = GetHistory(history, chat_id, limit)]
    /\ tasks' = Reaped
    /\ UNCHANGED <<svars, qvars, evars, gvars>>

QGetQueue(chat_id, page, per_page) ==
    /\ lastcall' = [NoCall EXCEPT !.op = "get_queue", !.chat_id = chat_id,
                                  !.args = <<page, per_page>>,
                                  !.ret = GetQueue(queues, chat_id, page, per_page)]
    /\ tasks' = Reaped
    /\ UNCHANGED <<svars, qvars, evars, gvars>>

\* clear_queue clearing the chat's history list as well
QClearQueueAndHistory(chat_id) ==
    LET r == ClearQueue(queues, chat_id)
    IN  /\ queues' = r.queues
        /\ history' = IF chat_id \in DOMAIN history
                      THEN [history EXCEPT ![chat_id] = <<>>]
                      ELSE history
        /\ lastcall' = [NoCall EXCEPT !.op = "clear_queue", !.chat_id = chat_id,
                                      !.ret = r.ret,
                                      !.pre = Get(queues, chat_id, <<>>)]
        /\ tasks' = Reaped
        /\ UNCHANGED <<svars, now, file, evars, gvars>>

QClearQueue(chat_id) ==
    LET r == ClearQueue(queues, chat_id)
    IN  /\ queues' = r.queues
        /\ lastcall' = [NoCall EXCEPT !.op = "clear_queue", !.chat_id = chat_id,
                                      !.ret = r.ret,
                                      !.pre = Get(queues, chat_id, <<>>)]
        /\ tasks' = Reaped
        /\ UNCHANGED <<svars, history, now, file, evars, gvars>>

\* the positions remove_track and move_track are asked for
Positions == -1..MaxQueueSize

QPeekNext(chat_id) ==
    /\ lastcall' = [NoCall EXCEPT !.op = "peek_next", !.chat_id = chat_id,
                                  !.item = PeekNext(queues, chat_id)]
    /\ tasks' = Reaped
    /\ UNCHANGED <<svars, qvars, evars, gvars>>

QRemoveTrack(chat_id, position) ==
    LET r == RemoveTrack(queues, chat_id, position)
    IN  /\ queues' = r.queues
        /\ lastcall' = [NoCall EXCEPT !.op = "remove_track", !.chat_id = chat_id,
                                      !.args = <<position>>, !.item = r.item,
                                      !.pre = Get(queues, chat_id, <<>>)]
        /\ tasks' = Reaped
        /\ UNCHANGED <<svars, history, now, file, evars, gvars>>

QMoveTrack(chat_id, from_pos, to_pos) ==
    LET r == MoveTrack(queues, chat_id, from_pos, to_pos)
    IN  /\ queues' = r.queues
        /\ lastcall' = [NoCall EXCEPT !.op = "move_track", !.chat_id = chat_id,
                                      !.args = <<from_pos, to_pos>>, !.ret = r.ret,
                                      !.pre = Get(queues, chat_id, <<>>)]
        /\ tasks' = Reaped
        /\ UNCHANGED <<svars, history, now, file, evars, gvars>>

QShuffleQueue(chat_id) ==
    \E order \in Shuffles(Len(Get(queues, chat_id, <<>>))) :
        LET r == ShuffleQueue(queues, chat_id, order)
        IN  /\ queues' = r.queues
            /\ lastcall' = [NoCall EXCEPT !.op = "shuffle_queue", !.chat_id = chat_id,
                                          !.ret = r.ret,
                                          !.pre = Get(queues, chat_id, <<>>)]
            /\ tasks' = Reaped
            /\ UNCHANGED <<svars, history, now, file, evars, gvars>>

\* the queue manager alone: its queue calls and its reads
NextQueue ==
    \/ \E c \in Chats, r \in Requests : QAddToQueue(c, r[1], r[2])
    \/ \E c \in Chats : QGetNext(c)
    \/ \E c \in Chats, limit \in Limits : QGetHistory(c, limit)
    \/ \E c \in Chats, page \in Pages, per_page \in PerPages : QGetQueue(c, page, per_page)

SpecQueue == Init /\ [][NextQueue]_vars

\* the queue manager with clear_queue and its persistence; the file is written
\* once, and load_state can bring back entries for get_next to return again
NextStore ==
    \/ \E c \in Chats, r \in Requests : QAddToQueue(c, r[1], r[2])
    \/ \E c \in Chats : Len(returned[c]) < MaxReturned /\ QGetNext(c)
    \/ \E c \in Chats : QClearQueue(c)
    \/ file = <<>> /\ SaveState
    \/ LoadState

SpecStore == Init /\ [][NextStore]_vars

\* the queue manager with the calls that edit a queue, and its reads asked for
\* the whole history and the first page
NextEdit ==
    \/ \E c \in Chats, r \in Requests : QAddToQueue(c, r[1], r[2])
    \/ \E c \in Chats : QGetNext(c)
    \/ \E c \in Chats : QPeekNext(c)
    \/ \E c \in Chats, position \in Positions : QRemoveTrack(c, position)
    \/ \E c \in Chats, from_pos, to_pos \in Positions : QMoveTrack(c, from_pos, to_pos)
    \/ \E c \in Chats : QShuffleQueue(c)
    \/ \E c \in Chats : QClearQueue(c)
    \/ \E c \in Chats : QGetHistory(c, MaxHistory)
    \/ \E c \in Chats : QGetQueue(c, 1, MaxQueueSize)

SpecEdit == Init /\ [][NextEdit]_vars

\* ------------------------------------------------- load_stats / save_stats
\* the stats document: the fields besides total_plays are not modelled
StatsDoc(n) == <<[total_plays |-> n]>>

\* the documents an earlier run of the bot can have left in the database
StoredStats == {<<>>} \cup {StatsDoc(n) : n \in 0..MaxStoredPlays}

\* load_stats up to `await self.database.get_stats()`: the database answers
\* with its document, or with None when there is none or the query failed
StartLoadStats(t) ==
    /\ CanStart(t, TRUE)
    /\ \E stats \in {database, <<>>} :
         tasks' = [Reaped EXCEPT ![t] =
                     [Begin("load_stats", 0, None, 0, TRUE) EXCEPT !.pc = "get_stats",
                                                                   !.stats = stats]]
    /\ lastcall' = NoCall
    /\ UNCHANGED <<svars, qvars, evars, gvars>>

\* get_stats returned: lines 436-438
LoadStatsReturn(t) ==
    /\ tasks[t].pc = "get_stats"
    /\ total_plays' = IF tasks[t].stats # <<>> THEN tasks[t].stats[1].total_plays
                      ELSE total_plays
    /\ tasks' = [Reaped EXCEPT ![t] = Finish(tasks[t], None, None)]
    /\ lastcall' = NoCall
    /\ UNCHANGED <<database, qvars, evars, gvars>>

\* save_stats up to `await self.database.save_stats({...})`: the document is
\* built from the counter as it is when the call is made
StartSaveStats(t) ==
    /\ CanStart(t, TRUE)
    /\ \E io \in {"ok", "fail"} :
         tasks' = [Reaped EXCEPT ![t] =
                     [Begin("save_stats", 0, None, 0, TRUE) EXCEPT !.pc = "save_stats",
                                                                   !.io = io,
                                                                   !.stats = StatsDoc(total_plays)]]
    /\ lastcall' = NoCall
    /\ UNCHANGED <<svars, qvars, evars, gvars>>

\* the upsert is done, or it failed and the failure is logged
SaveStatsReturn(t) ==
    /\ tasks[t].pc = "save_stats"
    /\ database' = IF tasks[t].io = "ok" THEN tasks[t].stats ELSE database
    /\ tasks' = [Reaped EXCEPT ![t] = Finish(tasks[t], None, None)]
    /\ lastcall' = NoCall
    /\ UNCHANGED <<total_plays, qvars, evars, gvars>>

\* the engine as constructed, over a database that may hold a stats document
InitStats ==
    /\ queues = EmptyDict
    /\ history = EmptyDict
    /\ now = 0
    /\ file = <<>>
    /\ chat_contexts = EmptyDict
    /\ voice_client \in BOOLEAN
    /\ active_chats = EmptyDict
    /\ tasks = [t \in Tasks |-> IdleTask]
    /\ commanded = [c \in Chats |-> None]
    /\ total_plays = 0
    /\ database \in StoredStats
    /\ enqueued = [c \in Chats |-> <<>>]
    /\ returned = [c \in Chats |-> <<>>]
    /\ lastcall = NoCall

\* plays, load_stats and save_stats, interleaved at their awaits
NextStats ==
    \/ \E t \in Tasks, c \in EngineChats, r \in Requests : StartPlay(t, TRUE, c, r[1], r[2])
    \/ \E t \in Tasks : PlayResolved(t)
    \/ \E t \in Tasks : PlayJoinReturn(t)
    \/ \E t \in Tasks : PlayAudioJoinReturn(t)
    \/ \E t \in Tasks : PlayChangeStreamReturn(t)
    \/ \E t \in Tasks : StartLoadStats(t)
    \/ \E t \in Tasks : LoadStatsReturn(t)
    \/ \E t \in Tasks : StartSaveStats(t)
    \/ \E t \in Tasks : SaveStatsReturn(t)

SpecStats == InitStats /\ [][NextStats]_vars

\* ================================================================= claims
Quiescent == \A t \in Tasks : ~InFlight(t)

Idle(ctx) == ~ctx.is_playing /\ ~ctx.is_paused /\ ctx.current_track = None

Playing(ctx) == ctx.is_playing /\ ~ctx.is_paused /\ ctx.current_track # None

Paused(ctx) == ctx.is_playing /\ ctx.is_paused /\ ctx.current_track # None

\* a chat without a context is Idle
ContextOf(snapshot) == IF snapshot = <<>> THEN NewContext ELSE snapshot[1]

Returned(t, op) == tasks[t].pc = "done" /\ tasks[t].op = op

\* C1 (SpecQueue): for every chat, what get_next has returned so far is the
\* beginning of what add_to_queue accepted for that chat, in the same order, and
\* the queue holds exactly the rest in order; an entry made for one chat (its
\* added_at tells entries apart) is never returned for another.
C1_FifoPerChat ==
    \A c \in Chats :
        /\ Len(returned[c]) <= Len(enqueued[c])
        /\ returned[c] = SubSeq(enqueued[c], 1, Len(returned[c]))
        /\ Entries(Get(queues, c, <<>>)) =
               SubSeq(enqueued[c], Len(returned[c]) + 1, Len(enqueued[c]))

\* two entries of chat 1 came back in order, with an entry of chat 2 enqueued
\* between them and returned as well
C1_Witness ==
    /\ Len(returned[1]) = 2
    /\ Len(returned[2]) = 1
    /\ returned[1][1][3] < returned[2][1][3]
    /\ returned[2][1][3] < returned[1][2][3]
    /\ returned[1][1][1] # returned[1][2][1]
    /\ lastcall.op = "get_next"

\* C2 (SpecQueue): no queue is ever longer than max_queue_size, and add_to_queue
\* on a queue that holds max_queue_size entries raises QueueError and leaves the
\* queue as it was.
C2_FullQueueRejects ==
    /\ \A c \in DOMAIN queues : Len(queues[c]) <= MaxQueueSize
    /\ (lastcall.op = "add_to_queue" /\ Len(lastcall.pre) >= MaxQueueSize)
         => /\ lastcall.ret = "QueueError"
            /\ queues[lastcall.chat_id] = lastcall.pre

C2_Witness ==
    /\ lastcall.op = "add_to_queue"
    /\ Len(lastcall.pre) = MaxQueueSize
    /\ lastcall.ret = "QueueError"
    /\ lastcall.item[1].track # lastcall.pre[1].track

\* C3 (Spec): every chat context is Idle, Playing or Paused: is_paused implies
\* is_playing, and no current track implies neither playing nor paused.
C3_ContextWellFormed ==
    \A c \in DOMAIN chat_contexts :
        LET ctx == chat_contexts[c]
        IN  /\ ctx.is_paused => ctx.is_playing
            /\ ctx.current_track = None => (~ctx.is_playing /\ ~ctx.is_paused)

\* play_in_chat got its stream URL and play_audio returned
PlayStarted(t) ==
    /\ Returned(t, "play")
    /\ tasks[t].cause \notin {"voice_unavailable", "no_stream", "join_failed", "play_failed"}

\* C4 (Spec): a play whose stream resolved and whose voice session joined and
\* started the stream returns ok, with the chat Playing the track.
C4_PlayReturnsOk ==
    \A t \in Tasks :
        PlayStarted(t) =>
            /\ tasks[t].ret = "True"
            /\ Playing(chat_contexts[tasks[t].chat_id])
            /\ chat_contexts[tasks[t].chat_id].current_track = tasks[t].track

\* C5 (Spec): a play that ends with an error leaves is_playing, is_paused and
\* current_track as the call found them.
C5_FailedPlayLeavesState ==
    \A t \in Tasks :
        (Returned(t, "play") /\ tasks[t].ret = "BotError") =>
            LET ctx == chat_contexts[tasks[t].chat_id]
                pre == ContextOf(tasks[t].pre)
            IN  /\ ctx.is_playing = pre.is_playing
                /\ ctx.is_paused = pre.is_paused
                /\ ctx.current_track = pre.current_track

\* C6 (Spec): pause on a chat that is not Playing, or without a voice session,
\* returns false and issues no pause command; pause on a Playing chat leaves it
\* Paused on the same track.
C6_PauseOnlyWhenPlaying ==
    \A t \in Tasks :
        Returned(t, "pause") =>
            LET pre == ContextOf(tasks[t].pre)
                ctx == ContextOf(Snapshot(tasks[t].chat_id))
            IN  IF voice_client /\ Playing(pre)
                THEN Paused(ctx) /\ ctx.current_track = pre.current_track
                ELSE /\ tasks[t].ret = "False"
                     /\ "pause" \notin tasks[t].cmds
                     /\ ctx = pre

\* C7 (Spec): resume on a chat that is not Paused returns false and changes
\* nothing; resume on a Paused chat leaves it Playing the same track.
C7_ResumeOnlyWhenPaused ==
    \A t \in Tasks :
        Returned(t, "resume") =>
            LET pre == ContextOf(tasks[t].pre)
                ctx == ContextOf(Snapshot(tasks[t].chat_id))
            IN  IF voice_client /\ Paused(pre)
                THEN Playing(ctx) /\ ctx.current_track = pre.current_track
                ELSE tasks[t].ret = "False" /\ ctx = pre

\* C8 (Spec): skip, on a chat that has a context, dequeues the head when the
\* queue has one, plays it and returns its track, the chat ending Playing that
\* track; on an empty queue it returns None and the chat ends Idle.
C8_SkipPlaysHead ==
    \A t \in Tasks :
        (Returned(t, "skip") /\ tasks[t].chat_id \in DOMAIN chat_contexts) =>
            LET c == tasks[t].chat_id
                ctx == ContextOf(Snapshot(c))
            IN  IF tasks[t].item # <<>>
                THEN /\ tasks[t].ret = tasks[t].item[1].track
                     /\ Playing(ctx)
                     /\ ctx.current_track = tasks[t].item[1].track
                ELSE /\ Get(queues, c, <<>>) = <<>>
                     /\ tasks[t].ret = None
                     /\ Idle(ctx)

\* C9 (Spec): after a stream-end event the chat is where skip would leave it: a
\* Playing chat with queued entries is Playing the head, which has left the
\* queue; a Playing chat with an empty queue is Idle; a chat without a context
\* still has none.
C9_StreamEndAdvances ==
    lastcall.op = "on_stream_end" =>
        LET c == lastcall.chat_id
            ctx == ContextOf(Snapshot(c))
        IN  IF lastcall.ctx = <<>>
            THEN c \notin DOMAIN chat_contexts
            ELSE Playing(lastcall.ctx[1]) =>
                   IF lastcall.pre # <<>>
                   THEN /\ Playing(ctx)
                        /\ ctx.current_track = Head(lastcall.pre).track
                        /\ queues[c] = Tail(lastcall.pre)
                   ELSE Idle(ctx)

\* C10 (SpecConc): once the calls on a chat have all returned, the chat is in a
\* state that calls run one at a time can leave it in: with is_playing set, the
\* voice session is joined and the stream last started is current_track.  (Every
\* state of Spec, where the calls are awaited one at a time, satisfies this.)
C10_SerialOutcome ==
    Quiescent =>
        \A c \in DOMAIN chat_contexts :
            chat_contexts[c].is_playing =>
                /\ c \in DOMAIN active_chats
                /\ commanded[c] = chat_contexts[c].current_track

\* C11 (Spec): stop without a voice client returns false, issues no command and
\* leaves the chat's context as it was (none is created); with a voice client it
\* issues the leave command and returns true, and a chat that was Playing or
\* Paused ends Idle.
C11_StopLeavesIdle ==
    \A t \in Tasks :
        Returned(t, "stop") =>
            LET c == tasks[t].chat_id
            IN  IF ~voice_client
                THEN /\ tasks[t].ret = "False"
                     /\ tasks[t].cmds = {}
                     /\ Snapshot(c) = tasks[t].pre
                ELSE /\ "leave" \in tasks[t].cmds
                     /\ tasks[t].ret = "True"
                     /\ (tasks[t].pre # <<>> /\ tasks[t].pre[1].is_playing)
                          => Idle(chat_contexts[c])

\* a stop returned on a chat that was Paused on a track
C11_Witness ==
    \E t \in Tasks :
        /\ Returned(t, "stop")
        /\ voice_client
        /\ tasks[t].pre # <<>>
        /\ Paused(tasks[t].pre[1])
        /\ Idle(chat_contexts[tasks[t].chat_id])

\* C12 (Spec): set_volume with a volume below 0 or above 200 raises the
\* invalid-volume error, issues no set_volume command and leaves the chat's
\* context as it was; and the volume of every context is within 0..200.
C12_InvalidVolumeRejected ==
    /\ \A c \in DOMAIN chat_contexts : chat_contexts[c].volume \in 0..200
    /\ \A t \in Tasks :
         (Returned(t, "set_volume") /\ tasks[t].volume \notin 0..200) =>
            /\ tasks[t].ret = "BotError"
            /\ tasks[t].cause = "volume"
            /\ "set_volume" \notin tasks[t].cmds
            /\ Snapshot(tasks[t].chat_id) = tasks[t].pre

\* C13 (Spec): a pause, resume or stop whose voice command failed does not
\* return success and leaves the chat's context as the call found it.
C13_VoiceFailureSurfaces ==
    \A t \in Tasks :
        (/\ tasks[t].pc = "done"
         /\ tasks[t].op \in {"pause", "resume", "stop"}
         /\ tasks[t].io = "fail") =>
            /\ tasks[t].ret # "True"
            /\ Snapshot(tasks[t].chat_id) = tasks[t].pre

\* C14 (Spec): the end-to-end trace of one chat.  A play that found the chat
\* Idle and started its stream returns ok, the chat is Playing the track and
\* the chat's history holds the track; a stream-end event on a Playing chat
\* with a queued entry leaves the chat Playing that entry's track, the entry
\* gone from the queue and the track played before in the history; a
\* stream-end event on a Playing chat with an empty queue leaves the chat Idle.
C14_EndToEndTrace ==
    /\ \A t \in Tasks :
         (PlayStarted(t) /\ Idle(ContextOf(tasks[t].pre))) =>
            LET c == tasks[t].chat_id
                h == Get(history, c, <<>>)
            IN  /\ tasks[t].ret = "True"
                /\ Playing(chat_contexts[c])
                /\ chat_contexts[c].current_track = tasks[t].track
                /\ \E i \in 1..Len(h) : h[i].track = tasks[t].track
    /\ (lastcall.op = "on_stream_end" /\ lastcall.ctx # <<>> /\ Playing(lastcall.ctx[1])) =>
            LET c == lastcall.chat_id
                h == Get(history, c, <<>>)
            IN  IF lastcall.pre # <<>>
                THEN /\ Playing(chat_contexts[c])
                     /\ chat_contexts[c].current_track = Head(lastcall.pre).track
                     /\ Len(queues[c]) = Len(lastcall.pre) - 1
                     /\ \E i \in 1..Len(h) : h[i].track = lastcall.ctx[1].current_track
                ELSE Idle(chat_contexts[c])

\* C15 (SpecStore): after load_state has read the file save_state wrote, the
\* manager holds for every chat exactly the queue and the history it held when
\* the file was written, entry by entry with every field equal, and nothing of
\* what it held just before the load.
C15_SaveLoadRoundTrip ==
    (lastcall.op = "load_state" /\ file # <<>>) =>
        /\ queues = file[1].saved_from.queues
        /\ history = file[1].saved_from.history

\* a load brought back a queued entry made at a fraction of a second and a
\* played one, and dropped a chat whose first entry was accepted after the file
\* was written
C15_Witness ==
    /\ lastcall.op = "load_state"
    /\ file # <<>>
    /\ \E c \in DOMAIN queues :
         \E i \in 1..Len(queues[c]) : queues[c][i].added_at % TicksPerSecond # 0
    /\ \E c \in DOMAIN history :
         \E i \in 1..Len(history[c]) : history[c][i].played
    /\ \E c \in Chats : enqueued[c] # <<>> /\ c \notin DOMAIN queues

\* the last n get_next results of chat c, the most recent first
LastReturned(c, n) ==
    [i \in 1..n |-> returned[c][Len(returned[c]) + 1 - i]]

\* C16 (SpecQueue): the stored history of a chat never holds more than
\* max_history entries and is the most recent get_next results in the order
\* they were returned; once more than max_history entries have been returned,
\* get_history(chat_id, max_history) gives exactly max_history entries, the
\* most recently returned ones, the most recent first, each marked played.
C16_HistoryKeepsMostRecent ==
    /\ \A c \in DOMAIN history :
         /\ Len(history[c]) <= MaxHistory
         /\ Len(history[c]) <= Len(returned[c])
         /\ Reversed(Entries(history[c])) = LastReturned(c, Len(history[c]))
    /\ (/\ lastcall.op = "get_history"
        /\ lastcall.args = <<MaxHistory>>
        /\ Len(returned[lastcall.chat_id]) > MaxHistory) =>
            /\ Len(lastcall.ret) = MaxHistory
            /\ Entries(lastcall.ret) = LastReturned(lastcall.chat_id, MaxHistory)
            /\ \A i \in 1..MaxHistory : lastcall.ret[i].played

C16_Witness ==
    /\ lastcall.op = "get_history"
    /\ lastcall.args = <<MaxHistory>>
    /\ Len(returned[lastcall.chat_id]) > MaxHistory
    /\ Len(lastcall.ret) = MaxHistory
    /\ lastcall.ret[1].track # lastcall.ret[MaxHistory].track

\* C17 (SpecQueue): get_history(chat_id, limit), for every limit >= 0, gives at
\* most limit entries: the last min(limit, stored) entries of the chat's stored
\* history, the most recent first.
C17_HistoryLimit ==
    lastcall.op = "get_history" =>
        LET limit == lastcall.args[1]
            h == Get(history, lastcall.chat_id, <<>>)
            n == IF limit < Len(h) THEN limit ELSE Len(h)
        IN  /\ Len(lastcall.ret) <= limit
            /\ lastcall.ret = [i \in 1..n |-> h[Len(h) + 1 - i]]

\* C18 (SpecQueue): a get_next on a chat whose queue is empty, or that has no
\* queue, returns None and leaves every queue and every history as they were.
C18_EmptyGetNextNoEffect ==
    [][(/\ lastcall'.op = "get_next"
        /\ Get(queues, lastcall'.chat_id, <<>>) = <<>>) =>
            /\ lastcall'.item = <<>>
            /\ history' = history
            /\ queues' = queues]_vars

\* get_next found nothing on a chat that has a history, while another chat has
\* an entry queued
C18_Witness ==
    /\ lastcall.op = "get_next"
    /\ lastcall.item = <<>>
    /\ Get(history, lastcall.chat_id, <<>>) # <<>>
    /\ \E c \in DOMAIN queues : c # lastcall.chat_id /\ queues[c] # <<>>

\* C19 (SpecStore): clear_queue on a queue that holds an entry returns true and
\* leaves the queue empty; on a queue that is empty, or on a chat that has
\* none, it returns false; either way every history stays as it was.
C19_ClearQueue ==
    [][lastcall'.op = "clear_queue" =>
         LET c == lastcall'.chat_id
         IN  /\ IF Get(queues, c, <<>>) # <<>>
                THEN lastcall'.ret = "True" /\ queues'[c] = <<>>
                ELSE lastcall'.ret = "False"
             /\ history' = history]_vars

\* C20 (SpecQueue): get_queue answers with a page number within 1..pages for
\* every page asked for; on an empty queue it answers pages = 0, no items and
\* page 1, whatever page was asked for.
C20_PageClamped ==
    lastcall.op = "get_queue" =>
        IF Get(queues, lastcall.chat_id, <<>>) = <<>>
        THEN /\ lastcall.ret.pages = 0
             /\ lastcall.ret.items = <<>>
             /\ lastcall.ret.page = 1
        ELSE lastcall.ret.page \in 1..lastcall.ret.pages

\* the least number of pages of per_page entries that hold total entries
CeilDiv(total, per_page) ==
    CHOOSE n \in 0..total : n * per_page >= total /\ (n - 1) * per_page < total

\* C21 (SpecQueue): get_queue on a queue that holds entries answers with total
\* the queue's length, pages the ceiling of total / per_page, and as items the
\* entries at the 0-based positions (p-1)*per_page .. min(p*per_page, total)-1
\* in queue order, p being the page asked for brought into 1..pages; the call
\* leaves every queue as it was.
C21_PageContents ==
    [][(lastcall'.op = "get_queue" /\ Get(queues, lastcall'.chat_id, <<>>) # <<>>) =>
         LET q == queues[lastcall'.chat_id]
             r == lastcall'.ret
             page == lastcall'.args[1]
             per_page == lastcall'.args[2]
             pages == CeilDiv(Len(q), per_page)
             p == IF page < 1 THEN 1 ELSE IF page > pages THEN pages ELSE page
             first == (p - 1) * per_page
             last == (IF p * per_page < Len(q) THEN p * per_page ELSE Len(q)) - 1
         IN  /\ r.total = Len(q)
             /\ r.pages = pages
             /\ r.page = p
             /\ Len(r.items) = last - first + 1
             /\ \A i \in 1..Len(r.items) : r.items[i] = q[first + i]
             /\ queues' = queues]_vars

\* the last page of a queue of MaxQueueSize entries was asked for by a page
\* number past it, one entry to the page
C21_Witness ==
    /\ lastcall.op = "get_queue"
    /\ lastcall.args = <<MaxQueueSize + 1, 1>>
    /\ lastcall.ret.total = MaxQueueSize
    /\ lastcall.ret.page = MaxQueueSize
    /\ lastcall.ret.items = <<queues[lastcall.chat_id][MaxQueueSize]>>

Without(seq, i) == [k \in 1..(Len(seq) - 1) |-> IF k <= i THEN seq[k] ELSE seq[k + 1]]

\* every queue but that of chat c is as it was
OtherQueuesKept(c) ==
    /\ DOMAIN queues' = DOMAIN queues
    /\ \A d \in DOMAIN queues : d # c => queues'[d] = queues[d]

C24_ShufflePermutes ==
    [][lastcall'.op = "shuffle_queue" =>
         LET c == lastcall'.chat_id
             q == Get(queues, c, <<>>)
         IN  /\ history' = history
             /\ IF Len(q) < 2
                THEN lastcall'.ret = "False" /\ queues' = queues
                ELSE /\ lastcall'.ret = "True"
                     /\ OtherQueuesKept(c)
                     /\ Len(queues'[c]) = Len(q)
                     /\ \E p \in Shuffles(Len(q)) :
                          \A i \in 1..Len(q) : queues'[c][i] = q[p[i]]]_vars

\* a shuffle put two entries in the other order, the chat having a history
C24_Witness ==
    /\ lastcall.op = "shuffle_queue"
    /\ lastcall.ret = "True"
    /\ Len(lastcall.pre) = 2
    /\ queues[lastcall.chat_id] = <<lastcall.pre[2], lastcall.pre[1]>>
    /\ Get(history, lastcall.chat_id, <<>>) # <<>>

\* the entry e is in chat c's queue; in chat c's history
InQueue(c, e) ==
    \E i \in 1..Len(Get(queues, c, <<>>)) : Entry(queues[c][i]) = e

InHistory(c, e) ==
    \E i \in 1..Len(Get(history, c, <<>>)) : Entry(history[c][i]) = e

\* C27 (SpecEdit), as claimed: every entry accepted for a chat is in that chat's
\* queue or in its history, and not in both.
C27_ExactlyOne ==
    \A c \in Chats :
        \A k \in 1..Len(enqueued[c]) :
            InQueue(c, enqueued[c][k]) # InHistory(c, enqueued[c][k])

\* C27 (SpecEdit), amended: no entry accepted for a chat is in both that chat's
\* queue and its history, and the queue and the history hold nothing but
\* entries accepted for the chat; after a get_next that returned an entry, that
\* entry, which was the head of the queue, is gone from the queue and is the
\* last of the history, marked played.
C27_AtMostOne ==
    /\ \A c \in Chats :
         /\ \A k \in 1..Len(enqueued[c]) :
              ~(InQueue(c, enqueued[c][k]) /\ InHistory(c, enqueued[c][k]))
         /\ \A i \in 1..Len(Get(queues, c, <<>>)) :
              \E k \in 1..Len(enqueued[c]) : enqueued[c][k] = Entry(queues[c][i])
         /\ \A i \in 1..Len(Get(history, c, <<>>)) :
              \E k \in 1..Len(enqueued[c]) : enqueued[c][k] = Entry(history[c][i])
    /\ (lastcall.op = "get_next" /\ lastcall.item # <<>>) =>
         LET c == lastcall.chat_id
         IN  /\ [Head(lastcall.pre) EXCEPT !.played = TRUE] = lastcall.item[1]
             /\ queues[c] = Tail(lastcall.pre)
             /\ history[c][Len(history[c])] = lastcall.item[1]

\* get_next returned an entry of a chat that still has another one queued and
\* another one, returned before, in its history
C27_Witness ==
    /\ lastcall.op = "get_next"
    /\ lastcall.item # <<>>
    /\ Len(history[lastcall.chat_id]) = 2
    /\ queues[lastcall.chat_id] # <<>>
    /\ InHistory(lastcall.chat_id, Entry(lastcall.item[1]))

\* C28 (SpecEdit): add_to_queue, peek_next, remove_track, move_track,
\* shuffle_queue, clear_queue, get_queue and get_history leave every history as
\* it was, and peek_next leaves every queue as it was too; a history changes
\* only in a get_next that returns an entry.
C28_HistoryFrame ==
    [][/\ lastcall'.op \in {"add_to_queue", "peek_next", "remove_track", "move_track",
                            "shuffle_queue", "clear_queue", "get_queue", "get_history"}
            => history' = history
       /\ lastcall'.op = "peek_next" =>
            /\ queues' = queues
            /\ lastcall'.item = (IF Get(queues, lastcall'.chat_id, <<>>) = <<>>
                                 THEN <<>> ELSE <<Head(queues[lastcall'.chat_id])>>)
       /\ history' # history => (lastcall'.op = "get_next" /\ lastcall'.item # <<>>)]_vars

\* clear_queue emptied the queue of a chat that has a history
C28_Witness ==
    /\ lastcall.op = "clear_queue"
    /\ lastcall.pre # <<>>
    /\ queues[lastcall.chat_id] = <<>>
    /\ Get(history, lastcall.chat_id, <<>>) # <<>>

\* C29 (Spec): a chat that has a context keeps it; a context appears only in
\* the step in which a play call for that chat starts, and it appears Idle with
\* volume 100; so the number of chats with a context never goes down.
C29_ContextLifetime ==
    [][/\ DOMAIN chat_contexts \subseteq DOMAIN chat_contexts'
       /\ Cardinality(DOMAIN chat_contexts') >= Cardinality(DOMAIN chat_contexts)
       /\ \A c \in DOMAIN chat_contexts' \ DOMAIN chat_contexts :
            /\ chat_contexts'[c] = NewContext
            /\ Idle(chat_contexts'[c]) /\ chat_contexts'[c].volume = 100
            /\ \E t \in Tasks :
                 /\ ~InFlight(t)
                 /\ tasks'[t].op = "play"
                 /\ tasks'[t].chat_id = c]_vars

\* a stop returned on a chat that was Playing, and the chat still has its context
C29_Witness ==
    \E t \in Tasks :
        /\ Returned(t, "stop")
        /\ voice_client
        /\ tasks[t].pre # <<>>
        /\ tasks[t].pre[1].is_playing
        /\ tasks[t].chat_id \in DOMAIN chat_contexts
        /\ queues # EmptyDict

\* C30 (Spec): a skip_track that dequeued an entry and then raised has taken
\* the head of the queue: the entry is gone from the queue and is the last of
\* the chat's history, marked played; a skip_track on a chat without a context
\* returns None, issues no voice command and leaves queue and history alone.
C30_FailedSkipConsumes ==
    [][\A t \in Tasks :
         (~InFlight(t) /\ tasks'[t].pc = "done" /\ tasks'[t].op = "skip") =>
            LET c == tasks'[t].chat_id
            IN  IF c \notin DOMAIN chat_contexts
                THEN /\ tasks'[t].ret = None
                     /\ tasks'[t].cmds = {}
                     /\ tasks'[t].item = <<>>
                     /\ queues' = queues
                     /\ history' = history
                ELSE tasks'[t].ret = "TypeError" =>
                       /\ Get(queues, c, <<>>) # <<>>
                       /\ tasks'[t].item = <<[Head(queues[c]) EXCEPT !.played = TRUE]>>
                       /\ queues'[c] = Tail(queues[c])
                       /\ history'[c][Len(history'[c])] = tasks'[t].item[1]]_vars

\* a skip_track raised after taking the first of two queued entries
C30_Witness ==
    \E t \in Tasks :
        /\ Returned(t, "skip")
        /\ tasks[t].ret = "TypeError"
        /\ tasks[t].item # <<>>
        /\ Len(queues[tasks[t].chat_id]) = 1
        /\ ~InQueue(tasks[t].chat_id, Entry(tasks[t].item[1]))
        /\ InHistory(tasks[t].chat_id, Entry(tasks[t].item[1]))

\* C25 (SpecStats): total_plays never decreases, and it counts the plays: the
\* step that completes a play which started its stream adds exactly one, and
\* no step but the return of load_stats changes it otherwise.
C25_PlayCounter ==
    [][LET counted == {t \in Tasks : tasks[t].pc = "change_stream" /\ PlayStarted(t)'}
           loaded == {t \in Tasks : tasks[t].pc = "get_stats"}
       IN  /\ total_plays' >= total_plays
           /\ counted # {} => total_plays' = total_plays + Cardinality(counted)
           /\ (counted = {} /\ loaded = {}) => total_plays' = total_plays]_vars

====
